---- MODULE Spec2Model ----
(***************************************************************************)
(* Model of the CRM query endpoint of api/query.py: one POST request is    *)
(* taken through do_POST step by step (parse body, API-key check, test     *)
(* request, question check, text_to_sql, execute_query, format_results,    *)
(* response).  Texts (questions, SQL) are sequences of one-character       *)
(* strings so that Python's substring tests, lower()/upper(), strip() and  *)
(* slices are computed as the code computes them.  The grave accent, which  *)
(* a TLA+ string cannot hold, is the character written "backtick".         *)
(***************************************************************************)
EXTENDS Integers, Sequences, FiniteSets, TLC

(* ------------------------------ bounds --------------------------------- *)
\* the record store holds at most MaxRecords records
MaxRecords == 2

(* ------------------------- text primitives ----------------------------- *)
LowerAlpha == <<"a","b","c","d","e","f","g","h","i","j","k","l","m","n","o","p","q","r","s","t","u","v","w","x","y","z">>
UpperAlpha == <<"A","B","C","D","E","F","G","H","I","J","K","L","M","N","O","P","Q","R","S","T","U","V","W","X","Y","Z">>
Digits == <<"0","1","2","3","4","5","6","7","8","9">>

IndexIn(c, alphabet) ==
    IF \E i \in 1..Len(alphabet) : alphabet[i] = c
    THEN CHOOSE i \in 1..Len(alphabet) : alphabet[i] = c
    ELSE 0

\* str.lower() / str.upper(), character by character
LowerChar(c) == IF IndexIn(c, UpperAlpha) > 0 THEN LowerAlpha[IndexIn(c, UpperAlpha)] ELSE c
UpperChar(c) == IF IndexIn(c, LowerAlpha) > 0 THEN UpperAlpha[IndexIn(c, LowerAlpha)] ELSE c
Lower(s) == [i \in 1..Len(s) |-> LowerChar(s[i])]
Upper(s) == [i \in 1..Len(s) |-> UpperChar(s[i])]

\* Python's `kw in s` on strings
Contains(s, kw) ==
    \E i \in 0..(Len(s) - Len(kw)) : SubSeq(s, i + 1, i + Len(kw)) = kw

\* s.startswith(p)
StartsWith(s, p) == Len(s) >= Len(p) /\ SubSeq(s, 1, Len(p)) = p

IsSpace(c) == c \in {" ", "\n", "\t"}
IsDigit(c) == IndexIn(c, Digits) > 0
\* a regex word character: letter, digit or underscore
IsWordChar(c) == IndexIn(c, LowerAlpha) > 0 \/ IndexIn(c, UpperAlpha) > 0 \/ IsDigit(c) \/ c = "_"

\* s.strip()
Strip(s) ==
    LET keep == {i \in 1..Len(s) : ~IsSpace(s[i])}
    IN  IF keep = {} THEN <<>>
        ELSE LET lo == CHOOSE i \in keep : \A j \in keep : i <= j
                 hi == CHOOSE i \in keep : \A j \in keep : i >= j
             IN  SubSeq(s, lo, hi)

\* the slice s[a:-b] for a, b >= 0 (b > 0)
SliceFromTo(s, a, b) == SubSeq(s, a + 1, Len(s) - b)

\* int() of a string of digits
RECURSIVE IntOf(_)
IntOf(ds) ==
    IF ds = <<>> THEN 0
    ELSE 10 * IntOf(SubSeq(ds, 1, Len(ds) - 1)) + (IndexIn(ds[Len(ds)], Digits) - 1)

\* re.findall(r'\b(\d+)\b', s): the maximal digit runs that have no word
\* character on either side, as (start, end) positions in order of start
DigitRuns(s) ==
    {<<a, b>> \in (1..Len(s)) \X (1..Len(s)) :
        /\ a <= b
        /\ \A i \in a..b : IsDigit(s[i])
        /\ (a = 1 \/ ~IsWordChar(s[a - 1]))
        /\ (b = Len(s) \/ ~IsWordChar(s[b + 1]))}

HasNumber(s) == DigitRuns(s) # {}

\* int(numbers[0])
FirstNumber(s) ==
    LET first == CHOOSE r \in DigitRuns(s) : \A q \in DigitRuns(s) : r[1] <= q[1]
    IN  IntOf(SubSeq(s, first[1], first[2]))

\* any(keyword in s for keyword in keywords), keywords a sequence of texts
AnyIn(keywords, s) == \E i \in 1..Len(keywords) : Contains(s, keywords[i])


(* ------------------------------ values --------------------------------- *)
\* A JSON-like value with one record shape for every type: t is the type
\* tag, s the text of a string (or the "url" entry of a mapping), n the
\* number (for a mapping: 1 when it has a "url" entry), items the elements
\* of a list.
VNull == [t |-> "null", s |-> <<>>, n |-> 0, items |-> <<>>]
VStr(text) == [t |-> "str", s |-> text, n |-> 0, items |-> <<>>]
VInt(k) == [t |-> "int", s |-> <<>>, n |-> k, items |-> <<>>]
\* a column value json.dumps cannot serialize (bytes of a binary column)
VBytes == [t |-> "bytes", s |-> <<>>, n |-> 0, items |-> <<>>]
VMap(url) == [t |-> "map", s |-> url, n |-> 1, items |-> <<>>]
VMapNoUrl == [t |-> "map", s |-> <<>>, n |-> 0, items |-> <<>>]
VList(elems) == [t |-> "list", s |-> <<>>, n |-> 0, items |-> elems]

\* dict.get(key, default) on a row (a function from field names to values)
Get(row, key, default) == IF key \in DOMAIN row THEN row[key] ELSE default

\* json.dumps succeeds on a list of rows
Serializable(rows) ==
    \A i \in 1..Len(rows) : \A k \in DOMAIN rows[i] : rows[i][k].t # "bytes"

(* ------------------------ parse_airtable_query ------------------------- *)
\* state_abbrevs in insertion order (the order the loop visits it)
state_abbrevs ==
    << <<<<"v","e","r","m","o","n","t">>, <<"V","T">>>>, <<<<"v","t">>, <<"V","T">>>>,
       <<<<"m","a","s","s","a","c","h","u","s","e","t","t","s">>, <<"M","A">>>>, <<<<"m","a">>, <<"M","A">>>>,
       <<<<"m","a","i","n","e">>, <<"M","E">>>>, <<<<"m","e">>, <<"M","E">>>>,
       <<<<"n","e","w"," ","h","a","m","p","s","h","i","r","e">>, <<"N","H">>>>, <<<<"n","h">>, <<"N","H">>>>,
       <<<<"r","h","o","d","e"," ","i","s","l","a","n","d">>, <<"R","I">>>>, <<<<"r","i">>, <<"R","I">>>>,
       <<<<"c","o","n","n","e","c","t","i","c","u","t">>, <<"C","T">>>>, <<<<"c","t">>, <<"C","T">>>> >>

\* a key the dict does not hold: state <<>>, has_limit FALSE, order_by ""
NoConditions == [state |-> <<>>, has_limit |-> FALSE, limit |-> 0, order_by |-> ""]

limit_words == <<<<"p","a","s","t">>, <<"l","a","s","t">>, <<"t","o","p">>, <<"f","i","r","s","t">>, <<"r","e","c","e","n","t">>>>
order_words == <<<<"r","e","c","e","n","t">>, <<"p","a","s","t">>, <<"l","a","t","e","s","t">>, <<"l","a","s","t">>>>

parse_airtable_query(question) ==
    LET question_lower == Lower(question)
        hits == {i \in 1..Len(state_abbrevs) : Contains(question_lower, state_abbrevs[i][1])}
        first == CHOOSE i \in hits : \A j \in hits : i <= j
        limited == HasNumber(question) /\ AnyIn(limit_words, question_lower)
    IN  [state |-> IF hits = {} THEN <<>> ELSE state_abbrevs[first][2],
         has_limit |-> limited,
         limit |-> IF limited THEN FirstNumber(question) ELSE 0,
         order_by |-> IF AnyIn(order_words, question_lower) THEN "date" ELSE ""]

(* ----------------------------- text_to_sql ----------------------------- *)
airtable_keywords ==
    <<<<"a","i","r","t","a","b","l","e">>, <<"a","i","r"," ","t","a","b","l","e">>, <<"p","h","o","t","o">>, <<"p","h","o","t","o","s">>, <<"c","r","e","m"," ","p","h","o","t","o","s">>,
      <<"e","v","e","n","t"," ","p","h","o","t","o">>, <<"e","v","e","n","t">>, <<"e","v","e","n","t","s">>>>

\* the keyword test without the lower(): a question in capitals is missed
is_airtable_query_case_sensitive(question) == AnyIn(airtable_keywords, question)

\* any(keyword in question.lower() for keyword in airtable_keywords)
is_airtable_query(question) == AnyIn(airtable_keywords, Lower(question))

SqlById == <<"S","E","L","E","C","T"," ","*"," ","F","R","O","M"," ","A","p","p","l","i","c","a","t","i","o","n","s"," ","W","H","E","R","E"," ","A","p","p","I","D"," ","="," ","4","5","8","7","4">>
SqlCount == <<"S","E","L","E","C","T"," ","C","O","U","N","T","(","*",")"," ","a","s"," ","c","o","u","n","t"," ","F","R","O","M"," ","A","p","p","l","i","c","a","t","i","o","n","s">>
SqlAverage == <<"S","E","L","E","C","T"," ","r","e","p",","," ","A","V","G","(","i","n","v","o","i","c","e","_","t","o","t","a","l",")"," ","a","s"," ","a","v","g","_","i","n","v","o","i","c","e"," ","F","R","O","M"," ","A","p","p","l","i","c","a","t","i","o","n","s"," ","G","R","O","U","P"," ","B","Y"," ","r","e","p"," ","O","R","D","E","R"," ","B","Y"," ","a","v","g","_","i","n","v","o","i","c","e"," ","D","E","S","C">>
SqlRejected == <<"S","E","L","E","C","T"," ","*"," ","F","R","O","M"," ","A","p","p","l","i","c","a","t","i","o","n","s"," ","W","H","E","R","E"," ","a","p","p","_","s","t","a","t","u","s"," ","I","N"," ","(","'","R","e","j","e","c","t","e","d","/","D","e","n","i","e","d","'",")"," ","O","R","D","E","R"," ","B","Y"," ","D","a","t","e","C","r","e","a","t","e","d"," ","D","E","S","C">>
SqlBalance == <<"S","E","L","E","C","T"," ","*"," ","F","R","O","M"," ","A","p","p","l","i","c","a","t","i","o","n","s"," ","W","H","E","R","E"," ","i","n","v","o","i","c","e","_","b","a","l","a","n","c","e"," ",">"," ","0"," ","O","R","D","E","R"," ","B","Y"," ","i","n","v","o","i","c","e","_","b","a","l","a","n","c","e"," ","D","E","S","C">>
SqlTopCities == <<"S","E","L","E","C","T"," ","T","O","P"," ","1","0"," ","c","i","t","y",","," ","C","O","U","N","T","(","*",")"," ","a","s"," ","c","o","u","n","t"," ","F","R","O","M"," ","A","p","p","l","i","c","a","t","i","o","n","s"," ","G","R","O","U","P"," ","B","Y"," ","c","i","t","y"," ","O","R","D","E","R"," ","B","Y"," ","c","o","u","n","t"," ","D","E","S","C">>
SqlDefault == <<"S","E","L","E","C","T"," ","T","O","P"," ","5"," ","*"," ","F","R","O","M"," ","A","p","p","l","i","c","a","t","i","o","n","s"," ","O","R","D","E","R"," ","B","Y"," ","D","a","t","e","C","r","e","a","t","e","d"," ","D","E","S","C">>

AirtableQuery(conditions) == [type |-> "airtable", query |-> <<"f","i","l","t","e","r","e","d">>, conditions |-> conditions]
SqlQuery(sql) == [type |-> "sql", query |-> sql, conditions |-> NoConditions]

\* the canned templates with the balance test moved to the front
CannedSqlBalanceFirst(question) ==
    LET q == Lower(question)
    IN  IF Contains(q, <<"b","a","l","a","n","c","e">>) THEN SqlBalance
        ELSE IF Contains(question, <<"4","5","8","7","4">>) THEN SqlById
        ELSE IF Contains(q, <<"c","o","u","n","t">>) THEN SqlCount
        ELSE IF Contains(q, <<"a","v","e","r","a","g","e">>) /\ Contains(q, <<"i","n","v","o","i","c","e">>) THEN SqlAverage
        ELSE IF Contains(q, <<"r","e","j","e","c","t","e","d">>) \/ Contains(q, <<"d","e","n","i","e","d">>) THEN SqlRejected
        ELSE IF Contains(q, <<"t","o","p">>) /\ Contains(q, <<"c","i","t","i","e","s">>) THEN SqlTopCities
        ELSE SqlDefault

\* the canned templates used when openai.api_key is not set
CannedSql(question) ==
    LET q == Lower(question)
    IN  IF Contains(question, <<"4","5","8","7","4">>) THEN SqlById
        ELSE IF Contains(q, <<"c","o","u","n","t">>) THEN SqlCount
        ELSE IF Contains(q, <<"a","v","e","r","a","g","e">>) /\ Contains(q, <<"i","n","v","o","i","c","e">>) THEN SqlAverage
        ELSE IF Contains(q, <<"r","e","j","e","c","t","e","d">>) \/ Contains(q, <<"d","e","n","i","e","d">>) THEN SqlRejected
        ELSE IF Contains(q, <<"b","a","l","a","n","c","e">>) THEN SqlBalance
        ELSE IF Contains(q, <<"t","o","p">>) /\ Contains(q, <<"c","i","t","i","e","s">>) THEN SqlTopCities
        ELSE SqlDefault

\* removal of markdown fences from the stripped model output
CleanSql(sql) ==
    IF StartsWith(sql, <<"backtick","backtick","backtick","s","q","l">>) THEN SliceFromTo(sql, 6, 3)
    ELSE IF StartsWith(sql, <<"backtick","backtick","backtick">>) THEN SliceFromTo(sql, 3, 3)
    ELSE sql

\* what text_to_sql makes of the model's message content
SqlFromCompletion(content) ==
    LET sql == Strip(content)
    IN  IF Contains(sql, <<"A","I","R","T","A","B","L","E","_","Q","U","E","R","Y">>) \/ Contains(Lower(sql), <<"a","i","r","t","a","b","l","e">>)
        THEN AirtableQuery(NoConditions)
        ELSE SqlQuery(Strip(CleanSql(sql)))


(* ----------------------- execute_sql_via_rest_mock --------------------- *)
SqlSource == "source" :> VStr(<<"s","q","l","_","s","e","r","v","e","r">>)

MockApplication ==
    ("AppID" :> VInt(45874)) @@ ("app_status" :> VStr(<<"P","r","o","c","e","s","s","e","d","/","A","c","c","e","p","t","e","d">>))
    @@ ("dba" :> VStr(<<"M","e","d","i","n","a","'","s"," ","M","a","i","n","t","e","n","a","n","c","e"," ","S","e","r","v","i","c","e","s"," ","&"," ","H","o","m","e"," ","I","m","p","r","o","v","e","m","e","n","t">>))
    @@ ("city" :> VStr(<<"R","o","s","l","i","n","d","a","l","e">>)) @@ ("state" :> VStr(<<"M","A">>))
    @@ ("invoice_total" :> VInt(642)) @@ ("rep" :> VStr(<<"C","o","c","h","r","a","n","e",","," ","V","a","l","e","r","i","e">>))
    @@ SqlSource

MockCity(city, count) == ("city" :> VStr(city)) @@ ("count" :> VInt(count)) @@ SqlSource

MockSample ==
    ("AppID" :> VInt(45874)) @@ ("app_status" :> VStr(<<"P","r","o","c","e","s","s","e","d","/","A","c","c","e","p","t","e","d">>))
    @@ ("dba" :> VStr(<<"S","a","m","p","l","e"," ","B","u","s","i","n","e","s","s">>))
    @@ ("city" :> VStr(<<"B","o","s","t","o","n">>)) @@ ("state" :> VStr(<<"M","A">>))
    @@ ("invoice_total" :> VInt(500)) @@ ("rep" :> VStr(<<"S","a","m","p","l","e"," ","R","e","p">>))
    @@ SqlSource

execute_sql_via_rest_mock(sql_query) ==
    IF Contains(sql_query, <<"A","p","p","I","D">>) /\ Contains(sql_query, <<"4","5","8","7","4">>)
    THEN <<MockApplication>>
    ELSE IF Contains(Upper(sql_query), <<"C","O","U","N","T">>)
    THEN << ("count" :> VInt(20000)) @@ SqlSource >>
    ELSE IF Contains(Upper(sql_query), <<"T","O","P">>) /\ Contains(Lower(sql_query), <<"c","i","t","y">>)
    THEN << MockCity(<<"B","o","s","t","o","n">>, 2500), MockCity(<<"C","a","m","b","r","i","d","g","e">>, 1800),
            MockCity(<<"W","o","r","c","e","s","t","e","r">>, 1200), MockCity(<<"S","p","r","i","n","g","f","i","e","l","d">>, 800),
            MockCity(<<"L","o","w","e","l","l">>, 600) >>
    ELSE <<MockSample>>

(* ---------------------------- search_airtable -------------------------- *)
\* the characters in code-point order, for Python's comparison of strings
Ascii == <<" ","!","\"","#","$","%","&","'","(",")","*","+",",","-",".","/","0","1","2","3","4","5","6","7","8","9",":",";","<","=",">","?","@","A","B","C","D","E","F","G","H","I","J","K","L","M","N","O","P","Q","R","S","T","U","V","W","X","Y","Z","[","\\","]","^","_","backtick","a","b","c","d","e","f","g","h","i","j","k","l","m","n","o","p","q","r","s","t","u","v","w","x","y","z","{","|","}","~">>

RECURSIVE TextLess(_, _)
\* a < b on strings
TextLess(a, b) ==
    IF b = <<>> THEN FALSE
    ELSE IF a = <<>> THEN TRUE
    ELSE IF a[1] = b[1] THEN TextLess(Tail(a), Tail(b))
    ELSE IndexIn(a[1], Ascii) < IndexIn(b[1], Ascii)

\* [att.get('url', '') for att in value] raises when an element is no mapping
PhotoRaises(value) ==
    value.t = "list" /\ \E i \in 1..Len(value.items) : value.items[i].t # "map"

PhotoUrls(value) ==
    VList([i \in 1..Len(value.items) |-> VStr(value.items[i].s)])

\* the result built from one fetched record (lines 198-210)
ConvertRecord(record) ==
    [key \in DOMAIN record.fields |->
        IF key = "Photo" /\ record.fields[key].t = "list"
        THEN PhotoUrls(record.fields[key])
        ELSE record.fields[key]]
    @@ ("record_id" :> VStr(record.id)) @@ ("source" :> VStr(<<"a","i","r","t","a","b","l","e">>))

ConvertRaises(records) ==
    \E i \in 1..Len(records) :
        "Photo" \in DOMAIN records[i].fields /\ PhotoRaises(records[i].fields["Photo"])

RECURSIVE SelectRows(_, _)
\* [r for r in results if r.get('State', '').upper() == state_filter]
SelectRows(results, state_filter) ==
    IF results = <<>> THEN <<>>
    ELSE LET rest == SelectRows(Tail(results), state_filter)
         IN  IF Upper(Get(Head(results), "State", VStr(<<>>)).s) = state_filter
             THEN <<Head(results)>> \o rest
             ELSE rest

\* .upper() raises on a State value that is no string
FilterRaises(results) ==
    \E i \in 1..Len(results) : Get(results[i], "State", VStr(<<>>)).t # "str"

DateKey(row) == Get(row, "Date of Event", VStr(<<>>))

RECURSIVE InsertDesc(_, _)
\* row placed after every row whose key is not smaller than its own
InsertDesc(sorted, row) ==
    IF sorted = <<>> THEN <<row>>
    ELSE IF TextLess(DateKey(Head(sorted)).s, DateKey(row).s)
         THEN <<row>> \o sorted
         ELSE <<Head(sorted)>> \o InsertDesc(Tail(sorted), row)

RECURSIVE SortByDateDesc(_)
\* results.sort(key=..., reverse=True): stable, newest first
SortByDateDesc(results) ==
    IF results = <<>> THEN <<>>
    ELSE InsertDesc(SortByDateDesc(SubSeq(results, 1, Len(results) - 1)),
                    results[Len(results)])

\* comparing keys raises when one of them is no string
SortRaises(results) ==
    Len(results) >= 2 /\ \E i \in 1..Len(results) : DateKey(results[i]).t # "str"

\* results[:limit] for limit >= 0
Take(results, limit) == SubSeq(results, 1, IF limit < Len(results) THEN limit ELSE Len(results))

\* lines 195-235 on the fetched records: the results, or <<>> when a step
\* raised and the blanket except returned []
FilterSortLimit(records, conditions) ==
    LET results == [i \in 1..Len(records) |-> ConvertRecord(records[i])]
        filtered == IF conditions.state # <<>>
                    THEN SelectRows(results, Upper(conditions.state))
                    ELSE results
        sorted == IF conditions.order_by = "date" THEN SortByDateDesc(filtered) ELSE filtered
        limited == IF conditions.has_limit THEN Take(sorted, conditions.limit) ELSE sorted
    IN  IF ConvertRaises(records) THEN <<>>
        ELSE IF conditions.state # <<>> /\ FilterRaises(results) THEN <<>>
        ELSE IF conditions.order_by = "date" /\ SortRaises(filtered) THEN <<>>
        ELSE limited


(* ----------------------------- format_results -------------------------- *)
Answer(template, k, rows) == [template |-> template, n |-> k, rows |-> rows]

\* the except branch: f"Results: {json.dumps(results[:5], indent=2)}"; json.dumps
\* raises there when a value cannot be serialized
FallbackAnswer(results) ==
    IF Serializable(Take(results, 5))
    THEN Answer("fallback_json", Len(results), Take(results, 5))
    ELSE Answer("raise", 0, <<>>)

\* the templates used when openai.api_key is not set (lines 439-468)
TemplateAnswer(results, question) ==
    LET question_lower == Lower(question)
    IN  IF Contains(question_lower, <<"h","o","w"," ","m","a","n","y">>) \/ Contains(question_lower, <<"c","o","u","n","t">>)
        THEN IF "count" \in DOMAIN results[1]
             THEN IF results[1]["count"].t = "int"
                  THEN Answer("count", results[1]["count"].n, <<>>)
                  ELSE FallbackAnswer(results)
             ELSE Answer("found_records", Len(results), <<>>)
        ELSE IF Len(results) = 1
        THEN Answer("single", 1, results)
        ELSE Answer("multi", Len(results), Take(results, 5))

\* completion is "none" when no call is made, "ok" when the model answered,
\* "raise" when the call failed
format_results(results, question, has_key, completion) ==
    IF results = <<>> THEN Answer("no_results", 0, <<>>)
    ELSE IF ~has_key THEN TemplateAnswer(results, question)
    ELSE IF completion = "ok" THEN Answer("llm", Len(results), Take(results, 10))
    ELSE FallbackAnswer(results)

raw_terms == <<<<"c","h","a","r","t">>, <<"t","a","b","l","e">>, <<"s","h","o","w"," ","m","e">>, <<"p","h","o","t","o">>, <<"p","h","o","t","o","s">>>>
include_raw(question) == AnyIn(raw_terms, Lower(question))


(* ------------------------------- inputs -------------------------------- *)
\* the value of MY_API_SECRET when it is set, and a key that differs from it
GoodKey == "s3cret"
BadKey == "wrong"

\* "" stands for a variable that is not set / a header or field that is missing
Envs ==
    [MY_API_SECRET : {"", GoodKey}, OPENAI_API_KEY : BOOLEAN,
     SQL : BOOLEAN, AIRTABLE : BOOLEAN]

Phrases ==
    { <<"s","h","o","w"," ","m","e"," ","t","h","e"," ","t","o","p"," ","5"," ","c","i","t","i","e","s">>,
      <<"W","h","i","c","h"," ","e","m","p","l","o","y","e","e"," ","h","a","s"," ","t","h","e"," ","m","o","s","t"," ","p","h","o","t","o","s","?">>,
      <<"D","R","O","P"," ","T","A","B","L","E"," ","A","p","p","l","i","c","a","t","i","o","n","s">>,
      <<"h","o","w"," ","m","a","n","y">>,
      <<"c","o","u","n","t">>,
      <<"E","V","E","N","T">>,
      <<"f","r","o","m"," ","c","o","n","n","e","c","t","i","c","u","t">>,
      <<"l","a","s","t"," ","2">> }

RECURSIVE Join(_)
\* the phrases of ps separated by single spaces
Join(ps) ==
    IF Len(ps) = 0 THEN <<>>
    ELSE IF Len(ps) = 1 THEN ps[1]
    ELSE ps[1] \o <<" ">> \o Join(Tail(ps))

\* a question asked as a whole sentence
Sentences == { <<"s","h","o","w"," ","m","e"," ","p","h","o","t","o","s"," ","f","r","o","m"," ","c","o","n","n","e","c","t","i","c","u","t">> }

\* a question is one phrase, two phrases in either order, or a sentence
Questions == Phrases \cup {Join(<<a, b>>) : a, b \in Phrases} \cup Sentences

\* the questions sent with every combination of keys
KeyedQuestions ==
    { <<"s","h","o","w"," ","m","e"," ","t","h","e"," ","t","o","p"," ","5"," ","c","i","t","i","e","s">>, <<"W","h","i","c","h"," ","e","m","p","l","o","y","e","e"," ","h","a","s"," ","t","h","e"," ","m","o","s","t"," ","p","h","o","t","o","s","?">> }

Field(text) == [present |-> TRUE, text |-> text]
NoField == [present |-> FALSE, text |-> <<>>]

\* body.kind: "malformed" is a body json.loads rejects (or a missing
\* Content-Length), "nonobject" a JSON value that is no object
Body(kind, api_key, test, q) == [kind |-> kind, api_key |-> api_key, test |-> test, question |-> q]

Keys == {"", GoodKey, BadKey}

\* the POSTs: every kind of body under every combination of keys with a
\* missing, an empty or a keyed question, and every question without a key
Requests ==
    {[x_api_key |-> h, body |-> Body(k, "", FALSE, NoField)] :
        h \in Keys, k \in {"malformed", "nonobject"}}
    \cup {[x_api_key |-> h, body |-> Body("object", b, t, q)] :
            h \in Keys, b \in Keys, t \in BOOLEAN,
            q \in {NoField, Field(<<>>)} \cup {Field(text) : text \in KeyedQuestions}}
    \cup {[x_api_key |-> "", body |-> Body("object", "", FALSE, Field(text))] :
            text \in Questions}

\* message contents the text-generation service may return to text_to_sql
Completions ==
    { <<"S","E","L","E","C","T"," ","T","O","P"," ","5"," ","*"," ","F","R","O","M"," ","A","p","p","l","i","c","a","t","i","o","n","s">>,
      <<"D","R","O","P"," ","T","A","B","L","E"," ","A","p","p","l","i","c","a","t","i","o","n","s">>,
      <<"backtick","backtick","backtick","s","q","l","\n","S","E","L","E","C","T"," ","C","O","U","N","T","(","*",")"," ","F","R","O","M"," ","A","p","p","l","i","c","a","t","i","o","n","s","\n","backtick","backtick","backtick">>,
      <<"A","I","R","T","A","B","L","E","_","Q","U","E","R","Y">>,
      <<"S","E","L","E","C","T"," ","*"," ","F","R","O","M"," ","A","p","p","l","i","c","a","t","i","o","n","s",";"," ","D","E","L","E","T","E"," ","F","R","O","M"," ","A","p","p","l","i","c","a","t","i","o","n","s">>,
      <<"S","E","L","E","C","T"," ","c","i","t","y"," ","F","R","O","M"," ","A","p","p","l","i","c","a","t","i","o","n","s"," ","-","-"," ","t","o","p">> }

\* row sets cursor.fetchall() may return
DbRowSets ==
    { <<>>,
      << "count" :> VInt(7) >>,
      << ("AppID" :> VInt(1)) @@ ("city" :> VStr(<<"S","a","l","e","m">>)),
         ("AppID" :> VInt(2)) @@ ("city" :> VStr(<<"L","y","n","n">>)) >>,
      << ("AppID" :> VInt(3)) @@ ("rowversion" :> VBytes) >> }

Smith == ("Employee Last Name" :> VList(<<VStr(<<"S","m","i","t","h">>)>>))
         @@ ("Employee First Name" :> VList(<<VStr(<<"J","a","n","e">>)>>))
Doe == ("Employee Last Name" :> VList(<<VStr(<<"D","o","e">>)>>))
       @@ ("Employee First Name" :> VList(<<VStr(<<"J","o","h","n">>)>>))

\* the field sets a fetched record may have
RecordKinds ==
    << ("Photo" :> VList(<<VMap(<<"h","t","t","p","s",":","/","/","d","l",".","e","x","a","m","p","l","e","/","a",".","j","p","g">>)>>))
         @@ ("State" :> VStr(<<"V","T">>)) @@ ("Date of Event" :> VStr(<<"2","0","2","4","-","0","3","-","0","2">>)) @@ Smith,
       ("Photo" :> VList(<<VMap(<<"h","t","t","p",":","/","/","d","l",".","e","x","a","m","p","l","e","/","b",".","j","p","g">>), VMapNoUrl>>))
         @@ ("State" :> VStr(<<"C","T">>)) @@ ("Date of Event" :> VStr(<<"2","0","2","4","-","0","1","-","1","5">>)) @@ Smith,
       ("Photo" :> VStr(<<"h","t","t","p",":","/","/","d","l",".","e","x","a","m","p","l","e","/","c",".","j","p","g">>))
         @@ ("State" :> VStr(<<"c","t">>)) @@ ("Date of Event" :> VStr(<<"2","0","2","4","-","0","5","-","2","0">>)) @@ Doe,
       ("Photo" :> VList(<<VStr(<<"h","t","t","p",":","/","/","d","l",".","e","x","a","m","p","l","e","/","d",".","j","p","g">>)>>))
         @@ ("State" :> VStr(<<"V","T">>)) @@ ("Date of Event" :> VStr(<<"2","0","2","4","-","0","2","-","1","1">>)) @@ Doe,
       ("Photo" :> VNull) @@ ("Event Name" :> VStr(<<"F","a","i","r">>)),
       ("Photo" :> VMap(<<"f","t","p",":","/","/","d","l",".","e","x","a","m","p","l","e","/","e",".","j","p","g">>)) @@ ("State" :> VStr(<<"C","T">>)) >>

RecordIds == <<<<"r","e","c","1">>, <<"r","e","c","2">>, <<"r","e","c","3">>, <<"r","e","c","4">>>>

\* what table.all() may return: at most MaxRecords records
Stores ==
    {[i \in DOMAIN pick |-> [id |-> RecordIds[i], fields |-> RecordKinds[pick[i]]]] :
        pick \in UNION {[1..k -> 1..Len(RecordKinds)] : k \in 0..MaxRecords}}


(* ------------------------------- state --------------------------------- *)
VARIABLES
    env,         \* the process environment (os.environ, openai.api_key, *_AVAILABLE)
    pc,          \* where do_POST stands
    request,     \* the POST being handled
    query_info,  \* what text_to_sql returned
    records,     \* the records table.all() returned while execute_query ran
    results,     \* the rows execute_query returned
    answer,      \* what format_results returned
    calls,       \* the calls made to collaborators while handling the request
    sent,        \* the status codes passed to send_response, in order
    wrote        \* the bodies passed to wfile.write, in order

vars == <<env, pc, request, query_info, records, results, answer, calls, sent, wrote>>

NoRequest ==
    [x_api_key |-> "",
     body |-> [kind |-> "none", api_key |-> "", test |-> FALSE,
               question |-> [present |-> FALSE, text |-> <<>>]]]
NoQuery == [type |-> "none", query |-> <<>>, conditions |-> NoConditions]
NoAnswer == Answer("none", 0, <<>>)

\* a call made by function fn; ok is FALSE when the call raised
Call(api, fn, arg, ok) == [api |-> api, fn |-> fn, arg |-> arg, ok |-> ok]

ErrorBody(status, message) == [kind |-> "error", status |-> status, error |-> message]

Init ==
    /\ env \in Envs
    /\ pc = "idle"
    /\ request = NoRequest
    /\ query_info = NoQuery
    /\ records = <<>>
    /\ results = <<>>
    /\ answer = NoAnswer
    /\ calls = <<>>
    /\ sent = <<>>
    /\ wrote = <<>>

\* send_response(status) ... wfile.write(body) inside the try block: when the
\* write raises, the except clause sends a second status line, 500
Reply(status, body, write_raises) ==
    /\ sent' = IF write_raises THEN sent \o <<status, 500>> ELSE Append(sent, status)
    /\ wrote' = IF write_raises THEN wrote \o <<body, ErrorBody(500, "Server error")>>
                ELSE Append(wrote, body)
    /\ pc' = "done"

\* the except clause of do_POST (lines 657-662)
ServerError ==
    /\ sent' = Append(sent, 500)
    /\ wrote' = Append(wrote, ErrorBody(500, "Server error"))
    /\ pc' = "done"

\* a request arrives; a handler object is created for every request and
\* nothing of one request is kept for the next, so a behaviour is one request
Receive(req) ==
    /\ pc = "idle"
    /\ request' = req
    /\ pc' = "parse"
    /\ query_info' = NoQuery
    /\ records' = <<>>
    /\ results' = <<>>
    /\ answer' = NoAnswer
    /\ calls' = <<>>
    /\ sent' = <<>>
    /\ wrote' = <<>>
    /\ UNCHANGED env

\* lines 530-532: json.loads raises on a malformed body
ParseBody ==
    /\ pc = "parse"
    /\ IF request.body.kind = "malformed"
       THEN ServerError
       ELSE pc' = "auth" /\ UNCHANGED <<sent, wrote>>
    /\ UNCHANGED <<env, request, query_info, records, results, answer, calls>>

\* self.headers.get('X-API-Key') or data.get('api_key')
PresentedKey(req) == IF req.x_api_key # "" THEN req.x_api_key ELSE req.body.api_key

\* lines 535-544
CheckApiKey ==
    /\ pc = "auth"
    /\ IF request.x_api_key = "" /\ request.body.kind = "nonobject"
       THEN ServerError   \* data.get raises AttributeError
       ELSE IF env.MY_API_SECRET # "" /\ PresentedKey(request) # env.MY_API_SECRET
       THEN \E write_raises \in BOOLEAN :
                Reply(401, ErrorBody(401, "Unauthorized - Invalid API Key"), write_raises)
       ELSE pc' = "dispatch" /\ UNCHANGED <<sent, wrote>>
    /\ UNCHANGED <<env, request, query_info, records, results, answer, calls>>

question == request.body.question.text

\* the check made only on the presence of the "question" entry
NoQuestionKeyOnly(q) == ~q.present

\* `not question` after data.get('question', '')
NoQuestion(q) == q.text = <<>>

\* the probe replaced by the query of the question
ProbeSqlOfQuestion == CannedSql(question)

\* the statement of the connection test
ProbeSql == SqlCount

\* table.all() with the raw table name and, when that raises, with the
\* URL-encoded one (lines 184-193): the calls made and the records obtained;
\* fetched FALSE when both attempts raised
Fetches ==
    LET raw(ok) == Call("table.all", "search_airtable", <<"t","a","b","l","e","_","n","a","m","e">>, ok)
        encoded(ok) == Call("table.all", "search_airtable", <<"q","u","o","t","e","(","t","a","b","l","e","_","n","a","m","e",")">>, ok)
    IN  {[calls |-> <<raw(TRUE)>>, fetched |-> TRUE, records |-> st] : st \in Stores}
        \cup {[calls |-> <<raw(FALSE), encoded(TRUE)>>, fetched |-> TRUE, records |-> st] :
                st \in Stores}
        \cup {[calls |-> <<raw(FALSE), encoded(FALSE)>>, fetched |-> FALSE, records |-> <<>>]}

NoFetch == [calls |-> <<>>, fetched |-> FALSE, records |-> <<>>]

\* search_airtable(query_conditions) given the outcome of the fetch
search_airtable(fetch, conditions) ==
    IF fetch.fetched THEN FilterSortLimit(fetch.records, conditions) ELSE <<>>

\* get_db_connection and the probe of the test request (lines 565-583)
SqlProbes ==
    LET connect(ok) == Call("pymssql.connect", "get_db_connection", <<>>, ok)
        execute(ok) == Call("cursor.execute", "do_POST", ProbeSql, ok)
    IN  {[calls |-> <<connect(FALSE)>>, outcome |-> "Failed to create connection"],
         [calls |-> <<connect(TRUE), execute(TRUE)>>, outcome |-> "Success"],
         [calls |-> <<connect(TRUE), execute(FALSE)>>, outcome |-> "Error"]}

NoProbe == [calls |-> <<>>, outcome |-> "Not Tested"]

Snapshot(e, sql_test, airtable_test) ==
    [kind |-> "snapshot", status |-> 200,
     pymssql_available |-> e.SQL, pyairtable_available |-> e.AIRTABLE,
     openai_key |-> IF e.OPENAI_API_KEY THEN "Set" ELSE "Not Set",
     api_secret |-> IF e.MY_API_SECRET # "" THEN "Set" ELSE "Not Set",
     sql_connection_test |-> sql_test,
     airtable_connection_test |-> airtable_test]

\* lines 547-602: the test request
HandleTest ==
    /\ pc = "dispatch"
    /\ request.body.kind = "object"
    /\ request.body.test
    /\ \E probe \in (IF env.SQL THEN SqlProbes ELSE {NoProbe}),
          fetch \in (IF env.AIRTABLE THEN Fetches ELSE {NoFetch}),
          write_raises \in BOOLEAN :
          /\ calls' = calls \o probe.calls \o fetch.calls
          /\ Reply(200,
                   Snapshot(env, probe.outcome,
                            IF env.AIRTABLE
                            THEN <<"Success", Len(search_airtable(fetch, NoConditions))>>
                            ELSE <<"Not Tested", 0>>),
                   write_raises)
    /\ UNCHANGED <<env, request, query_info, records, results, answer>>

\* lines 547 (not a test request) and 605-613
CheckQuestion ==
    /\ pc = "dispatch"
    /\ ~(request.body.kind = "object" /\ request.body.test)
    /\ IF request.body.kind = "nonobject"
       THEN ServerError   \* data.get('test') raises AttributeError
       ELSE IF NoQuestion(request.body.question)
       THEN \E write_raises \in BOOLEAN :
                Reply(400, ErrorBody(400, "No question provided"), write_raises)
       ELSE pc' = "text_to_sql" /\ UNCHANGED <<sent, wrote>>
    /\ UNCHANGED <<env, request, query_info, records, results, answer, calls>>

\* lines 616-617: text_to_sql(question, schema)
TextToSql ==
    /\ pc = "text_to_sql"
    /\ IF is_airtable_query(question)
       THEN /\ query_info' = AirtableQuery(parse_airtable_query(question))
            /\ UNCHANGED calls
       ELSE IF ~env.OPENAI_API_KEY
       THEN /\ query_info' = SqlQuery(CannedSql(question))
            /\ UNCHANGED calls
       ELSE \/ \E content \in Completions :
                  /\ calls' = Append(calls, Call("openai.ChatCompletion.create",
                                                 "text_to_sql", question, TRUE))
                  /\ query_info' = SqlFromCompletion(content)
            \/ /\ calls' = Append(calls, Call("openai.ChatCompletion.create",
                                               "text_to_sql", question, FALSE))
               /\ query_info' = SqlQuery(SqlDefault)   \* the call raised
    /\ pc' = "execute"
    /\ UNCHANGED <<env, request, records, results, answer, sent, wrote>>

\* lines 389-397: result['source'] = 'sql_server' on every fetched row
Tagged(rows) == [i \in 1..Len(rows) |-> SqlSource @@ rows[i]]

\* execute_sql_via_rest(sql_query): what the database did, the calls made and
\* the rows returned
SqlRuns(sql_query, configured) ==
    LET handed == Call("execute_sql_via_rest", "execute_query", sql_query, TRUE)
        connect(ok) == Call("pymssql.connect", "get_db_connection", <<>>, ok)
        execute(ok) == Call("cursor.execute", "execute_sql_via_rest", sql_query, ok)
        mock == execute_sql_via_rest_mock(sql_query)
    IN  IF ~configured
        THEN {[calls |-> <<handed>>, rows |-> mock]}
        ELSE {[calls |-> <<handed, connect(FALSE)>>, rows |-> mock],
              [calls |-> <<handed, connect(TRUE), execute(FALSE)>>, rows |-> mock]}
             \cup {[calls |-> <<handed, connect(TRUE), execute(TRUE)>>,
                    rows |-> Tagged(rows)] : rows \in DbRowSets}

\* lines 620-631: execute_query(query_info); neither path ever returns an
\* error, so the 500 branch of line 622 is not taken
ExecuteQuery ==
    /\ pc = "execute"
    /\ IF query_info.type = "airtable"
       THEN \E fetch \in (IF env.AIRTABLE THEN Fetches ELSE {NoFetch}) :
               /\ calls' = calls \o fetch.calls
               /\ records' = fetch.records
               /\ results' = search_airtable(fetch, query_info.conditions)
       ELSE \E run \in SqlRuns(query_info.query, env.SQL) :
               /\ calls' = calls \o run.calls
               /\ results' = run.rows
               /\ UNCHANGED records
    /\ pc' = "format"
    /\ UNCHANGED <<env, request, query_info, answer, sent, wrote>>

\* line 634: format_results(results, question)
FormatResults ==
    /\ pc = "format"
    /\ \E completion \in (IF results # <<>> /\ env.OPENAI_API_KEY
                          THEN {"ok", "raise"} ELSE {"none"}) :
          LET formatted == format_results(results, question, env.OPENAI_API_KEY, completion)
          IN  /\ calls' = IF completion = "none" THEN calls
                          ELSE Append(calls, Call("openai.ChatCompletion.create",
                                                  "format_results", question,
                                                  completion = "ok"))
              /\ IF formatted.template = "raise"
                 THEN ServerError /\ UNCHANGED answer
                 ELSE answer' = formatted /\ pc' = "respond" /\ UNCHANGED <<sent, wrote>>
    /\ UNCHANGED <<env, request, query_info, records, results>>

\* the response dict with raw_results added for an empty result too
ResponseWithEmptyRaw ==
    LET raw == include_raw(question)
    IN  [kind |-> "answer", status |-> 200,
         keys |-> {"answer", "query_type", "sql", "results_count"}
                  \cup (IF raw THEN {"raw_results"} ELSE {}),
         answer |-> answer,
         query_type |-> query_info.type,
         sql |-> query_info.query,
         results_count |-> Len(results),
         raw_results |-> IF raw THEN results ELSE <<>>]

\* the response dict of lines 639-648
Response ==
    LET raw == include_raw(question) /\ results # <<>> /\ Len(results) < 1000
    IN  [kind |-> "answer", status |-> 200,
         keys |-> {"answer", "query_type", "sql", "results_count"}
                  \cup (IF raw THEN {"raw_results"} ELSE {}),
         answer |-> answer,
         query_type |-> query_info.type,
         sql |-> query_info.query,
         results_count |-> Len(results),
         raw_results |-> IF raw THEN results ELSE <<>>]

\* lines 637-655: the status line goes out before json.dumps(response), which
\* raises on rows it cannot serialize
SendResponse ==
    /\ pc = "respond"
    /\ \E write_raises \in BOOLEAN :
          Reply(200, Response, write_raises \/ ~Serializable(Response.raw_results))
    /\ UNCHANGED <<env, request, query_info, records, results, answer, calls>>

Next ==
    \/ \E req \in Requests : Receive(req)
    \/ ParseBody
    \/ CheckApiKey
    \/ HandleTest
    \/ CheckQuestion
    \/ TextToSql
    \/ ExecuteQuery
    \/ FormatResults
    \/ SendResponse

Spec == Init /\ [][Next]_vars

\* the questions about the relational data: the words the canned templates
\* of text_to_sql look for, alone and in pairs
TemplatePhrases ==
    { <<"4","5","8","7","4">>, <<"C","o","u","n","t">>, <<"a","v","e","r","a","g","e"," ","i","n","v","o","i","c","e">>, <<"a","v","e","r","a","g","e">>, <<"R","e","j","e","c","t","e","d">>,
      <<"d","e","n","i","e","d">>, <<"b","a","l","a","n","c","e">>, <<"t","o","p"," ","c","i","t","i","e","s">>, <<"r","e","c","e","n","t">> }

TemplateQuestions == TemplatePhrases \cup {Join(<<a, b>>) : a, b \in TemplatePhrases}

TemplateRequests ==
    {[x_api_key |-> "", body |-> Body("object", "", FALSE, Field(text))] :
        text \in TemplateQuestions}
    \cup {[x_api_key |-> GoodKey, body |-> Body("object", "", TRUE, NoField)]}

\* do_POST handling the questions about the relational data
NextTemplates ==
    \/ \E req \in TemplateRequests : Receive(req)
    \/ ParseBody
    \/ CheckApiKey
    \/ HandleTest
    \/ CheckQuestion
    \/ TextToSql
    \/ ExecuteQuery
    \/ FormatResults
    \/ SendResponse

SpecTemplates == Init /\ [][NextTemplates]_vars


(* ------------------------------- claims -------------------------------- *)
Done == pc = "done"
Executed == pc \in {"format", "respond", "done"} /\ query_info.type # "none"

\* the secret check lets the request through
PassesSecretCheck ==
    env.MY_API_SECRET = "" \/ PresentedKey(request) = env.MY_API_SECRET

IsTestRequest == request.body.kind = "object" /\ request.body.test

CallsOf(api) == {i \in DOMAIN calls : calls[i].api = api}

\* the word w with no word character on either side
ContainsWord(s, w) ==
    \E i \in 0..(Len(s) - Len(w)) :
        /\ SubSeq(s, i + 1, i + Len(w)) = w
        /\ (i = 0 \/ ~IsWordChar(s[i]))
        /\ (i + Len(w) = Len(s) \/ ~IsWordChar(s[i + Len(w) + 1]))

BlockedVerbs ==
    <<<<"D","R","O","P">>, <<"D","E","L","E","T","E">>, <<"I","N","S","E","R","T">>, <<"U","P","D","A","T","E">>, <<"A","L","T","E","R">>, <<"T","R","U","N","C","A","T","E">>, <<"C","R","E","A","T","E">>,
      <<"E","X","E","C">>, <<"M","E","R","G","E">>, <<"G","R","A","N","T">>>>

\* what the safety gate lets through
SafeSql(text) ==
    /\ StartsWith(Upper(text), <<"S","E","L","E","C","T">>)
    /\ ~Contains(text, <<";">>)
    /\ ~Contains(text, <<"-","-">>)
    /\ ~Contains(text, <<"/","*">>)
    /\ \A i \in 1..Len(BlockedVerbs) : ~ContainsWord(Upper(text), BlockedVerbs[i])

\* C1: every SQL text handed to execute_sql_via_rest begins with SELECT and
\* holds no statement terminator, comment marker or blocklisted verb, and a
\* query text that violates this is answered with HTTP 400.
C1_SafetyGate ==
    /\ \A i \in CallsOf("execute_sql_via_rest") : SafeSql(calls[i].arg)
    /\ (Done /\ query_info.type = "sql" /\ ~SafeSql(query_info.query)) => sent[1] = 400

\* C2: with a secret configured, a POST that presents the secret neither in
\* the X-API-Key header nor in the api_key field is answered with 401, and no
\* snapshot is built, no question classified and no call made for it,
\* whatever its body.
C2_UnauthorizedBeforeProcessing ==
    (/\ Done
     /\ env.MY_API_SECRET # ""
     /\ request.x_api_key # env.MY_API_SECRET
     /\ request.body.api_key # env.MY_API_SECRET)
    => /\ sent[1] = 401
       /\ calls = <<>>
       /\ query_info = NoQuery
       /\ \A i \in DOMAIN wrote : wrote[i].kind # "snapshot"

\* C3: a POST that passes the secret check, is not a test request and has a
\* missing or empty question is answered with HTTP 400 and an error body,
\* and no relational, record-store or text-generation call is made for it.
C3_MissingQuestion ==
    (/\ Done
     /\ request.body.kind = "object"
     /\ ~request.body.test
     /\ PassesSecretCheck
     /\ request.body.question.text = <<>>)
    => /\ sent[1] = 400
       /\ wrote[1].kind = "error"
       /\ wrote[1].status = 400
       /\ calls = <<>>
       /\ query_info = NoQuery

\* a present but empty question, sent with the secret in the body, got its 400
C3_Witness ==
    /\ Done
    /\ env.MY_API_SECRET = GoodKey
    /\ request.x_api_key = ""
    /\ request.body.api_key = GoodKey
    /\ request.body.question.present
    /\ request.body.question.text = <<>>
    /\ sent = <<400>>

\* C4: a POST whose body is not well-formed JSON is answered with HTTP 400,
\* not 500 (taken where no secret stands in the way).
C4_MalformedJsonIs400 ==
    (/\ Done
     /\ request.body.kind = "malformed"
     /\ (env.MY_API_SECRET = "" \/ request.x_api_key = env.MY_API_SECRET))
    => sent[1] = 400

\* the relational execute step raised, or both fetches of the record store did
BackendFailed ==
    \/ \E i \in CallsOf("cursor.execute") :
          calls[i].fn = "execute_sql_via_rest" /\ ~calls[i].ok
    \/ /\ CallsOf("table.all") # {}
       /\ \A i \in CallsOf("table.all") : ~calls[i].ok

\* C5: a failure of the relational execute step or of the record-store fetch
\* is answered with HTTP 500; no such failure ends in a 200 response.
C5_BackendFailureIs500 ==
    (Done /\ query_info.type # "none" /\ BackendFailed) => sent[1] = 500

\* a record-store domain word, whatever its case
MentionsDomainWord(q) ==
    \E w \in {<<"p","h","o","t","o">>, <<"e","v","e","n","t">>, <<"a","i","r","t","a","b","l","e">>, <<"a","i","r"," ","t","a","b","l","e">>} : Contains(Lower(q), w)

\* the questions that mention a domain word
DomainQuestions == {q \in Questions \cup KeyedQuestions : MentionsDomainWord(q)}

\* C6: a question that contains a record-store domain word is routed to the
\* record store (query_type "airtable", no relational executor and no
\* query-generation call); any other question, with no text-generation
\* credential, is routed to the relational path (query_type "sql").
C6_BackendRouting ==
    query_info.type # "none" =>
        /\ question \in DomainQuestions =>
              /\ query_info.type = "airtable"
              /\ CallsOf("execute_sql_via_rest") = {}
              /\ CallsOf("cursor.execute") = {}
              /\ \A i \in CallsOf("openai.ChatCompletion.create") :
                    calls[i].fn # "text_to_sql"
              /\ (Done /\ sent[1] = 200) => wrote[1].query_type = "airtable"
        /\ (question \notin DomainQuestions /\ ~env.OPENAI_API_KEY) =>
              /\ query_info.type = "sql"
              /\ CallsOf("table.all") = {}
              /\ Executed => CallsOf("execute_sql_via_rest") # {}
              /\ (Done /\ sent[1] = 200) => wrote[1].query_type = "sql"

\* a question in capitals was answered from the record store
C6_Witness ==
    /\ Done
    /\ Contains(question, <<"E","V","E","N","T">>)
    /\ ~Contains(question, <<"p","h","o","t","o">>)
    /\ sent = <<200>>
    /\ wrote[1].query_type = "airtable"
    /\ records # <<>>

\* C7: with no text-generation credential a relational question is handled
\* without any call to the text-generation service, and for "show me the top
\* 5 cities" the query executed is the city-grouped count with the TOP 5 cap.
C7_CannedWithoutDelegate ==
    (~env.OPENAI_API_KEY /\ query_info.type = "sql") =>
        /\ CallsOf("openai.ChatCompletion.create") = {}
        /\ (Executed /\ question = <<"s","h","o","w"," ","m","e"," ","t","h","e"," ","t","o","p"," ","5"," ","c","i","t","i","e","s">>) =>
              \E i \in CallsOf("execute_sql_via_rest") :
                  /\ StartsWith(calls[i].arg, <<"S","E","L","E","C","T"," ","T","O","P"," ","5"," ","c","i","t","y",","," ","C","O","U","N","T","(","*",")">>)
                  /\ Contains(calls[i].arg, <<"G","R","O","U","P"," ","B","Y"," ","c","i","t","y">>)

IsLeaderboardQuestion(q) ==
    Contains(Lower(q), <<"e","m","p","l","o","y","e","e">>) /\ Contains(Lower(q), <<"m","o","s","t"," ","p","h","o","t","o","s">>)

\* the record has at least one photo URL
HasPhoto(row) ==
    /\ "Photo" \in DOMAIN row
    /\ row["Photo"].t = "list"
    /\ \E i \in 1..Len(row["Photo"].items) :
          StartsWith(Lower(row["Photo"].items[i].s), <<"h","t","t","p">>)

Submitter(row) ==
    <<Get(row, "Employee Last Name", VNull), Get(row, "Employee First Name", VNull)>>

PhotoCount(rows, who) ==
    Cardinality({i \in 1..Len(rows) : HasPhoto(rows[i]) /\ Submitter(rows[i]) = who})

\* C8: a question that contains "employee" and "most photos" is answered with
\* the employee leaderboard: the submitter with the most records that have a
\* photo URL, and that count.
C8_EmployeeLeaderboard ==
    (/\ Done
     /\ sent[1] = 200
     /\ IsLeaderboardQuestion(question)
     /\ \E i \in 1..Len(results) : HasPhoto(results[i]))
    => /\ answer.template = "leaderboard"
       /\ \E i \in 1..Len(results) :
             /\ answer.n = PhotoCount(results, Submitter(results[i]))
             /\ \A j \in 1..Len(results) :
                   PhotoCount(results, Submitter(results[j])) <= answer.n

IsUrlList(value) ==
    /\ value.t = "list"
    /\ \A i \in 1..Len(value.items) :
          /\ value.items[i].t = "str"
          /\ StartsWith(Lower(value.items[i].s), <<"h","t","t","p">>)

\* C9: whatever the shape of a fetched Photo value, normalization discards no
\* fetched record, and every Photo value returned by the record-store path is
\* a list of strings that begin with http.
C9_AttachmentNormalization ==
    (Executed /\ query_info.type = "airtable") =>
        /\ \A i \in 1..Len(results) :
              "Photo" \in DOMAIN results[i] => IsUrlList(results[i]["Photo"])
        /\ query_info.conditions = NoConditions => Len(results) = Len(records)

\* C10 as stated: a test request that passes the secret check is answered
\* with 200 and the snapshot, its question is never classified, and nothing
\* is executed against the relational database or the record store.
C10_TestRunsNothing ==
    (Done /\ IsTestRequest /\ PassesSecretCheck) =>
        /\ sent[1] = 200
        /\ wrote[1].kind = "snapshot"
        /\ query_info = NoQuery
        /\ calls = <<>>

\* C10 amended: a test request that passes the secret check is answered with
\* 200 and the snapshot whether or not it has a question; the question is
\* never classified, no text-generation call is made and no query of the
\* question is run: the only calls are the connection tests of the backends
\* that are configured (connect and SELECT COUNT(*) FROM Applications; the
\* unfiltered fetch of the table).
C10_TestRunsOnlyProbes ==
    (Done /\ IsTestRequest /\ PassesSecretCheck) =>
        /\ sent[1] = 200
        /\ wrote[1].kind = "snapshot"
        /\ query_info = NoQuery
        /\ results = <<>>
        /\ answer = NoAnswer
        /\ \A i \in DOMAIN calls :
              \/ env.SQL /\ calls[i].api = "pymssql.connect"
              \/ env.SQL /\ calls[i].api = "cursor.execute" /\ calls[i].arg = SqlCount
              \/ env.AIRTABLE /\ calls[i].api = "table.all"

\* a test request that carries a question ran the two connection tests
C10_Witness ==
    /\ Done
    /\ IsTestRequest
    /\ request.body.question.text = <<"s","h","o","w"," ","m","e"," ","t","h","e"," ","t","o","p"," ","5"," ","c","i","t","i","e","s">>
    /\ env.MY_API_SECRET = GoodKey
    /\ sent = <<200>>
    /\ CallsOf("cursor.execute") # {}
    /\ CallsOf("table.all") # {}

\* a 200 response to a question was built and its status line sent
Answered == Done /\ Len(sent) > 0 /\ sent[1] = 200 /\ wrote[1].kind = "answer"

\* the question asks for a visualization
AsksForVisualization(q) ==
    \E term \in {<<"c","h","a","r","t">>, <<"t","a","b","l","e">>, <<"s","h","o","w"," ","m","e">>, <<"p","h","o","t","o">>, <<"p","h","o","t","o","s">>} :
        Contains(Lower(q), term)

Regions ==
    << [name |-> <<"v","e","r","m","o","n","t">>, code |-> <<"V","T">>],
       [name |-> <<"m","a","s","s","a","c","h","u","s","e","t","t","s">>, code |-> <<"M","A">>],
       [name |-> <<"m","a","i","n","e">>, code |-> <<"M","E">>],
       [name |-> <<"n","e","w"," ","h","a","m","p","s","h","i","r","e">>, code |-> <<"N","H">>],
       [name |-> <<"r","h","o","d","e"," ","i","s","l","a","n","d">>, code |-> <<"R","I">>],
       [name |-> <<"c","o","n","n","e","c","t","i","c","u","t">>, code |-> <<"C","T">>] >>

\* the question holds "from" or "in" followed by the name or the code of region i
NamesRegion(q, i) ==
    \E prep \in {<<"f","r","o","m">>, <<"i","n">>}, w \in {Regions[i].name, Lower(Regions[i].code)} :
        ContainsWord(Lower(q), prep \o <<" ">> \o w)

NamedRegions(q) == {i \in DOMAIN Regions : NamesRegion(q, i)}

\* C12: the state filter of a record-store query is set only when the
\* question holds "from" or "in" followed by a region name or code, and it is
\* then the code of a region so named; a question that names exactly one
\* region gets that region's code and a question that names none gets no
\* filter.
C12_RegionExtraction ==
    (Executed /\ query_info.type = "airtable") =>
        LET state == query_info.conditions.state
            named == NamedRegions(question)
        IN  /\ state # <<>> => \E i \in named : state = Regions[i].code
            /\ \A i \in named : named = {i} => state = Regions[i].code
            /\ named = {} => state = <<>>

\* the numbers N of one digit that follow "past", "last", "first" or "top"
AskedLimits(q) ==
    {n \in 0..9 :
        \E w \in {<<"p","a","s","t">>, <<"l","a","s","t">>, <<"f","i","r","s","t">>, <<"t","o","p">>} :
            ContainsWord(Lower(q), w \o <<" ">> \o <<Digits[n + 1]>>)}

\* C13: every record-store query has a result limit of at least 1 (the N
\* that follows "past", "last", "first" or "top" when there is one, a default
\* or the maximum otherwise), and no more records than the limit are
\* returned.
C13_ResultLimit ==
    (Executed /\ query_info.type = "airtable") =>
        LET conditions == query_info.conditions
        IN  /\ conditions.has_limit
            /\ conditions.limit >= 1
            /\ AskedLimits(question) # {} => conditions.limit \in AskedLimits(question)
            /\ Len(results) <= conditions.limit

\* the rules of the canned templates in their order: id lookup, count,
\* average by group, status filter, balance filter, top cities by count,
\* default recent N
RuleMatches(i, q) ==
    CASE i = 1 -> Contains(q, <<"4","5","8","7","4">>)
      [] i = 2 -> Contains(Lower(q), <<"c","o","u","n","t">>)
      [] i = 3 -> Contains(Lower(q), <<"a","v","e","r","a","g","e">>) /\ Contains(Lower(q), <<"i","n","v","o","i","c","e">>)
      [] i = 4 -> Contains(Lower(q), <<"r","e","j","e","c","t","e","d">>) \/ Contains(Lower(q), <<"d","e","n","i","e","d">>)
      [] i = 5 -> Contains(Lower(q), <<"b","a","l","a","n","c","e">>)
      [] i = 6 -> Contains(Lower(q), <<"t","o","p">>) /\ Contains(Lower(q), <<"c","i","t","i","e","s">>)
      [] OTHER -> TRUE

RuleSql == <<SqlById, SqlCount, SqlAverage, SqlRejected, SqlBalance, SqlTopCities, SqlDefault>>

FirstRule(q) ==
    CHOOSE i \in DOMAIN RuleSql :
        RuleMatches(i, q) /\ \A j \in 1..(i - 1) : ~RuleMatches(j, q)

\* C14: with no text-generation credential the relational query is the
\* template of the first rule the question matches, in the order id lookup,
\* count, average by group, status filter, balance filter, top cities,
\* default; it is one read-only statement that begins with SELECT, and it
\* is the statement handed to the executor.
C14_CannedTemplates ==
    (query_info.type = "sql" /\ ~env.OPENAI_API_KEY) =>
        /\ query_info.query = RuleSql[FirstRule(question)]
        /\ SafeSql(query_info.query)
        /\ CallsOf("openai.ChatCompletion.create") = {}
        /\ \A i \in CallsOf("execute_sql_via_rest") : calls[i].arg = query_info.query

\* a question that matches the count rule and the top-cities rule got the
\* count template
C14_Witness ==
    /\ Done
    /\ ~env.OPENAI_API_KEY
    /\ question = <<"t","o","p"," ","c","i","t","i","e","s"," ","C","o","u","n","t">>
    /\ RuleMatches(2, question) /\ RuleMatches(6, question)
    /\ query_info.query = SqlCount
    /\ sent = <<200>>

\* no row comes before a row with a later event date
NewestFirst(rows) ==
    \A i, j \in DOMAIN rows :
        i < j => ~TextLess(DateKey(rows[i]).s, DateKey(rows[j]).s)

\* the fetched records that pass the state filter of the query
Matching ==
    LET rows == [i \in DOMAIN records |-> ConvertRecord(records[i])]
    IN  IF query_info.conditions.state = <<>> THEN rows
        ELSE SelectRows(rows, query_info.conditions.state)

\* C15: the records a record-store query returns are ordered newest event
\* date first, and when a limit N applies they are the N newest of the
\* records that pass the state filter.
C15_NewestFirst ==
    (Executed /\ query_info.type = "airtable") =>
        /\ NewestFirst(results)
        /\ query_info.conditions.has_limit =>
              /\ Len(results) = Len(Take(Matching, query_info.conditions.limit))
              /\ \A i \in DOMAIN Matching :
                    (\A j \in DOMAIN results : results[j] # Matching[i]) =>
                        \A j \in DOMAIN results :
                            ~TextLess(DateKey(results[j]).s, DateKey(Matching[i]).s)

\* the text-generation call of format_results failed
DelegateFailed ==
    \E i \in DOMAIN calls : calls[i].fn = "format_results" /\ ~calls[i].ok

\* C16: when the text-generation call fails while a result that is not
\* empty is summarized, the request is answered with 200 and an answer
\* rendered from at most the first 5 rows; an empty result gets the fixed
\* "No results found" answer and no text-generation call is made for it.
C16_AnswerFallback ==
    /\ (Done /\ DelegateFailed) =>
          /\ sent[1] = 200
          /\ answer.template = "fallback_json"
          /\ answer.rows = Take(results, 5)
    /\ (Executed /\ pc \in {"respond", "done"} /\ results = <<>>) =>
          /\ answer.template = "no_results"
          /\ \A i \in DOMAIN calls : calls[i].fn # "format_results"

\* C17: on every path through do_POST exactly one status line (with its
\* header block) is sent and one body written, also when serializing or
\* writing the body of a success response fails: no 500 follows a 200.
C17_OneResponse ==
    /\ Len(sent) <= 1
    /\ Done => (Len(sent) = 1 /\ Len(wrote) = 1)
    /\ \A i, j \in DOMAIN sent : (i < j /\ sent[i] = 200) => sent[j] # 500

====
